---- MODULE Spec2Model ----
(***************************************************************************)
(* Text extraction and injection for the decompressed CC scripts of the    *)
(* Eve Burst Error translation tool: the text-block scanner                *)
(* (extractTextBlocks, validateTextStructure), the extractor               *)
(* (extractDirectory), the injector (injectFile, processEnText,           *)
(* replaceBuffer), the container framing (compressCC, decompressCC) with   *)
(* the LZSS codec, and the driver (main, the batch loops of the five       *)
(* commands, importFileToHdi).                                             *)
(*                                                                         *)
(* A buffer is a sequence of bytes 0..255; the source's 0-based offset o   *)
(* is element o+1 of the sequence.  A string is a sequence of characters;  *)
(* a character is its code point, except that the character of a two-byte *)
(* Shift-JIS code is named by 65536 + lead*256 + trail.                    *)
(***************************************************************************)
EXTENDS Integers, Sequences, FiniteSets, TLC

VARIABLES
    buffer,        \* the decompressed CC file read from ccPath
    txt,           \* the translator file read from txtPath (characters)
    jpTxt,         \* the file written by extractDirectory (characters)
    outFile,       \* the file at outputPath: [exists, data]
    cmd,           \* the command running: "scan", "extract" or "inject"
    pc,            \* position of the run
    ccPos,         \* extractTextBlocks: cursor
    curCmdPos,     \* extractTextBlocks: position examined by the last pass of the loop
    blocks,        \* extractTextBlocks: records found so far / injectFile: textBlocks
    enLines,       \* injectFile: the replacement list
    idx,           \* injectFile: index of the forEach / for-of loops (1-based)
    result,        \* injectFile: the Result object
    lens,          \* injectFile: [oldLen, newLen, totalOverLen, lostLines]
    newBuffer,     \* injectFile: the buffer being rewritten
    basePos,       \* injectFile: search cursor of the rewrite pass
    unedited,      \* TRUE when txt is the extractor's output for this buffer
    wrapIn,        \* processEnText: the argument enText
    wrapOut,       \* processEnText: [done, text], the value returned
    plain,         \* a file in decompressed form, the input of compressCC
    packed,        \* compressCC: [done, ok, data], the file written or the throw
    unpacked,      \* decompressCC of the packed file: [done, ok, data]
    lzStream,      \* the codec on its own: [done, data], the compressed stream
    lzBack,        \* the codec on its own: [done, ok, data], the stream decompressed
    command,       \* main: the command of the driver, "none" when no batch runs
    files,         \* the .CC files of the directory listing: what processing each one does
    fileIdx,       \* the for-of loop of the batch: index of the next file (1-based)
    attempted,     \* the files whose pass of the loop has begun
    counts,        \* [successCount, halfSuccessCount, failCount]
    mainPc,        \* position of main: "start", "loop", "import", "returned", "threw", "exited"
    exitStatus,    \* exit status of the process, -1 while it runs
    importPc,      \* position of importFileToHdi
    openHandles,   \* image handles opened and not closed
    pending,       \* importFileToHdi: TRUE when an exception is propagating
    writerCalls    \* importDirectoryToHdi: calls of importFileToHdi made for each file

coreVars == <<buffer, txt, jpTxt, outFile, cmd, pc, ccPos, curCmdPos, blocks,
              enLines, idx, result, lens, newBuffer, basePos, unedited>>
wrapVars == <<wrapIn, wrapOut>>
codecVars == <<plain, packed, unpacked, lzStream, lzBack>>
batchVars == <<command, files, fileIdx, attempted, counts, mainPc, exitStatus,
               importPc, openHandles, pending, writerCalls>>
auxVars  == <<wrapVars, codecVars, batchVars>>

vars == <<coreVars, auxVars>>

scanVars == <<ccPos, curCmdPos, blocks>>
injVars  == <<enLines, idx, result, lens, newBuffer, basePos>>

----------------------------------------------------------------------------
(* Program constants *)

HEADER_SIZE == 20            \* 0x14, extractTextBlocks.ts
TEXT_MARKER == 253           \* 0xFD
BODY_START  == 24            \* 0x18, basePos of the rewrite pass
LEN_OFFSET  == 20            \* 0x14, offset of the u16 length field
MAX_U16     == 65535         \* 0xFFFF
MAX_EN_LEN  == 255           \* 0xFF
maxWidth    == 53

NUL       == 0
LF        == 10              \* "\n"
SPACE     == 32              \* " "
BACKSLASH == 92              \* "\\"
QUESTION  == 63              \* "?", iconv-lite's default single-byte character
REPLACEMENT_CHAR == 65533    \* U+FFFD, iconv-lite's default unicode character

(* Bounds of the model *)
MaxBody  == 4                \* longest enumerated body of the scanner runs
MaxFrags == 2                \* most fragments in a body of the injection runs
MaxLines == 2                \* most lines in an enumerated translator file
MaxData == 5                 \* longest enumerated input of the codec
MaxPad == 1                  \* runs of letters: up to MaxPad, and within MaxPad of maxWidth

----------------------------------------------------------------------------
(* Buffers *)

\* buffer[off] of the source: the byte, or -1 for undefined (off out of range)
At(buf, off) == IF off >= 0 /\ off < Len(buf) THEN buf[off + 1] ELSE -1

\* buffer.subarray(from, to)
Sub(buf, from, to) == SubSeq(buf, from + 1, to)

\* buffer.readUInt16LE(off)
ReadUInt16LE(buf, off) == At(buf, off) + 256 * At(buf, off + 1)

\* a write of four bytes, the value as a 32-bit integer
WriteUInt16LE_FourBytes(buf, v, off) ==
    [i \in 1..Len(buf) |->
        IF i = off + 1 THEN v % 256
        ELSE IF i = off + 2 THEN v \div 256
        ELSE IF i = off + 3 \/ i = off + 4 THEN 0
        ELSE buf[i]]

\* the buffer with bytes (v % 256, v \div 256) at off, off+1
WriteUInt16LE(buf, v, off) ==
    [i \in 1..Len(buf) |->
        IF i = off + 1 THEN v % 256
        ELSE IF i = off + 2 THEN v \div 256
        ELSE buf[i]]

\* CP932 lead bytes, as the validator tests them
IsLead(b) == (b >= 129 /\ b <= 159) \/ (b >= 224 /\ b <= 252)

\* CP932 trail bytes
IsTrail(b) == (b >= 64 /\ b <= 126) \/ (b >= 128 /\ b <= 252)

----------------------------------------------------------------------------
(* validateTextStructure *)

\* the body of the while loop of check 4, run when the index i stands at k
WalkStep(buf, textStart, i, k) ==
    IF i # k THEN i
    ELSE IF IsLead(At(buf, textStart + k)) THEN i + 2 ELSE i + 1

RECURSIVE WalkRun(_, _, _, _, _)
\* the loop over the indexes lo..hi, by halves (the recursion stays shallow)
WalkRun(buf, textStart, i, lo, hi) ==
    IF lo > hi THEN i
    ELSE IF lo = hi THEN WalkStep(buf, textStart, i, lo)
    ELSE LET mid  == (lo + hi) \div 2
             left == WalkRun(buf, textStart, i, lo, mid)
         IN  IF left > hi THEN left
             ELSE WalkRun(buf, textStart, left, mid + 1, hi)

\* the while loop of check 4: the value of i when the loop ends
WalkFrom(buf, textStart, lineLen, i) == WalkRun(buf, textStart, i, 0, lineLen - 1)

\* validateTextStructure without check 3, the terminator byte
validateTextStructure_NoCheck3(buf, startPos) ==
    LET b1        == At(buf, startPos + 1)
        lineLen   == IF b1 = -1 THEN 0 ELSE b1
        terminatorPos == startPos + 2 + lineLen
        textStart == startPos + 2
        textEnd   == textStart + lineLen
    IN  IF lineLen = 0 THEN FALSE
        ELSE IF terminatorPos >= Len(buf) THEN FALSE
        ELSE IF \E i \in textStart..(textEnd - 1) : At(buf, i) = NUL THEN FALSE
        ELSE IF WalkFrom(buf, textStart, lineLen, 0) = lineLen + 1 THEN FALSE
        ELSE IF /\ lineLen = 3
                /\ At(buf, textStart) = 18
                /\ At(buf, textStart + 1) = 251
                /\ At(buf, textStart + 2) = 1 THEN FALSE
        ELSE TRUE

\* validateTextStructure without check 5 (the form it has in extract.ts)
validateTextStructure_NoCheck5(buf, startPos) ==
    LET b1        == At(buf, startPos + 1)
        lineLen   == IF b1 = -1 THEN 0 ELSE b1
        terminatorPos == startPos + 2 + lineLen
        textStart == startPos + 2
        textEnd   == textStart + lineLen
    IN  IF lineLen = 0 THEN FALSE
        ELSE IF terminatorPos >= Len(buf) THEN FALSE
        ELSE IF At(buf, terminatorPos) # NUL THEN FALSE
        ELSE IF \E i \in textStart..(textEnd - 1) : At(buf, i) = NUL THEN FALSE
        ELSE IF WalkFrom(buf, textStart, lineLen, 0) = lineLen + 1 THEN FALSE
        ELSE TRUE

validateTextStructure(buf, startPos) ==
    LET b1        == At(buf, startPos + 1)
        lineLen   == IF b1 = -1 THEN 0 ELSE b1
        terminatorPos == startPos + 2 + lineLen
        textStart == startPos + 2
        textEnd   == textStart + lineLen
    IN  IF lineLen = 0 THEN FALSE
        ELSE IF terminatorPos >= Len(buf) THEN FALSE
        ELSE IF At(buf, terminatorPos) # NUL THEN FALSE
        ELSE IF \E i \in textStart..(textEnd - 1) : At(buf, i) = NUL THEN FALSE
        ELSE IF WalkFrom(buf, textStart, lineLen, 0) = lineLen + 1 THEN FALSE
        ELSE IF /\ lineLen = 3
                /\ At(buf, textStart) = 18
                /\ At(buf, textStart + 1) = 251
                /\ At(buf, textStart + 2) = 1 THEN FALSE
        ELSE TRUE

----------------------------------------------------------------------------
(* iconv-lite, "Shift_JIS" *)

\* the character of the two-byte code (lead, trail)
DbcsChar(lead, trail) == 65536 + lead * 256 + trail
IsDbcsChar(c) == c >= 65536
\* half-width katakana, bytes 0xA1..0xDF <-> U+FF61..U+FF9F
IsKanaByte(b) == b >= 161 /\ b <= 223
IsKanaChar(c) == c >= 65377 /\ c <= 65439

\* the decoder at index k (1-based) of bytes, st = [i, out]: a lead byte takes
\* the next byte when that is a trail byte; a lead byte without one and an
\* unassigned byte (0xA0, 0xFD..0xFF) give U+FFFD and decoding resumes at the
\* next byte
DecodeStep(bytes, st, k) ==
    IF st.i # k THEN st
    ELSE LET b == bytes[k] IN
         IF IsLead(b)
         THEN IF k + 1 <= Len(bytes) /\ IsTrail(bytes[k + 1])
              THEN [i |-> k + 2, out |-> Append(st.out, DbcsChar(b, bytes[k + 1]))]
              ELSE [i |-> k + 1, out |-> Append(st.out, REPLACEMENT_CHAR)]
         ELSE IF b <= 128 THEN [i |-> k + 1, out |-> Append(st.out, b)]
         ELSE IF IsKanaByte(b)
              THEN [i |-> k + 1, out |-> Append(st.out, 65377 + (b - 161))]
         ELSE [i |-> k + 1, out |-> Append(st.out, REPLACEMENT_CHAR)]

RECURSIVE DecodeRun(_, _, _, _)
\* the decoder over the indexes lo..hi, by halves
DecodeRun(bytes, st, lo, hi) ==
    IF lo > hi THEN st
    ELSE IF lo = hi THEN DecodeStep(bytes, st, lo)
    ELSE LET mid  == (lo + hi) \div 2
             left == DecodeRun(bytes, st, lo, mid)
         IN  IF left.i > hi THEN left
             ELSE DecodeRun(bytes, left, mid + 1, hi)

\* iconv.decode(bytes, "Shift_JIS")
Decode(bytes) == DecodeRun(bytes, [i |-> 1, out |-> << >>], 1, Len(bytes)).out

\* the bytes of one character: a character without a code is encoded as "?"
EncodeChar(c) ==
    IF c <= 128 THEN <<c>>
    ELSE IF IsKanaChar(c) THEN <<161 + (c - 65377)>>
    ELSE IF IsDbcsChar(c) THEN <<(c - 65536) \div 256, (c - 65536) % 256>>
    ELSE <<QUESTION>>

RECURSIVE EncodeRange(_, _, _)
\* the bytes of text[lo..hi], by halves
EncodeRange(text, lo, hi) ==
    IF lo > hi THEN << >>
    ELSE IF lo = hi THEN EncodeChar(text[lo])
    ELSE LET mid == (lo + hi) \div 2
         IN  EncodeRange(text, lo, mid) \o EncodeRange(text, mid + 1, hi)

\* iconv.encode(text, "sjis")
Encode(text) == EncodeRange(text, 1, Len(text))

----------------------------------------------------------------------------
(* extractTextBlocks *)

\* the TextBlock pushed for the record at pos: jpBuffer is the byte group
\* FD len text 00, jpText the decoded text; enText and enBuffer start as the
\* original
MakeBlock(buf, pos, lineLen) ==
    [position |-> pos,
     length   |-> lineLen,
     jpText   |-> Decode(Sub(buf, pos + 2, pos + 2 + lineLen)),
     jpBuffer |-> Sub(buf, pos, pos + 2 + lineLen + 1),
     enText   |-> Decode(Sub(buf, pos + 2, pos + 2 + lineLen)),
     enBuffer |-> Sub(buf, pos, pos + 2 + lineLen + 1)]

\* LoopBody resynchronising after a rejected candidate: the cursor skips the
\* marker and the length byte
LoopBody_Resync(buf, pos) ==
    LET cmdByte == At(buf, pos)
        ccLen   == Len(buf)
        lineLen == At(buf, pos + 1)
        textEnd == pos + 2 + lineLen
    IN  IF cmdByte # TEXT_MARKER THEN [ccPos |-> pos + 1, push |-> << >>]
        ELSE IF pos + 1 >= ccLen THEN [ccPos |-> pos + 1, push |-> << >>]
        ELSE IF ~validateTextStructure(buf, pos) THEN [ccPos |-> pos + 2, push |-> << >>]
        ELSE IF textEnd > ccLen THEN [ccPos |-> pos + 1, push |-> << >>]
        ELSE [ccPos |-> textEnd + 1, push |-> <<MakeBlock(buf, pos, lineLen)>>]

\* one pass of the while loop with the cursor at pos: the next cursor and
\* the blocks pushed (none or one)
LoopBody(buf, pos) ==
    LET cmdByte == At(buf, pos)
        ccLen   == Len(buf)
        lineLen == At(buf, pos + 1)
        textEnd == pos + 2 + lineLen
    IN  IF cmdByte # TEXT_MARKER THEN [ccPos |-> pos + 1, push |-> << >>]
        ELSE IF pos + 1 >= ccLen THEN [ccPos |-> pos + 1, push |-> << >>]
        ELSE IF ~validateTextStructure(buf, pos) THEN [ccPos |-> pos + 1, push |-> << >>]
        ELSE IF textEnd > ccLen THEN [ccPos |-> pos + 1, push |-> << >>]
        ELSE [ccPos |-> textEnd + 1, push |-> <<MakeBlock(buf, pos, lineLen)>>]

ScanStep ==
    /\ pc = "scan"
    /\ ccPos < Len(buffer)
    /\ LET r == LoopBody(buffer, ccPos) IN
        /\ curCmdPos' = ccPos
        /\ ccPos' = r.ccPos
        /\ blocks' = blocks \o r.push
    /\ UNCHANGED <<buffer, txt, jpTxt, outFile, cmd, pc, unedited>>
    /\ UNCHANGED injVars
    /\ UNCHANGED auxVars

ScanDone ==
    /\ pc = "scan"
    /\ ccPos >= Len(buffer)
    /\ pc' = "scanned"
    /\ UNCHANGED <<buffer, txt, jpTxt, outFile, cmd, unedited>>
    /\ UNCHANGED scanVars
    /\ UNCHANGED injVars
    /\ UNCHANGED auxVars

RECURSIVE ScanFrom(_, _, _)
\* the while loop from cursor pos on, found being the blocks pushed so far
ScanFrom(buf, pos, found) ==
    IF pos >= Len(buf) THEN found
    ELSE LET r == LoopBody(buf, pos)
         IN  ScanFrom(buf, r.ccPos, found \o r.push)

\* extractTextBlocks(buffer): the blocks returned
extractTextBlocks(buf) == ScanFrom(buf, HEADER_SIZE, << >>)

----------------------------------------------------------------------------
(* extractDirectory: the text file written for one CC file *)

\* jpText.replaceAll("\n", "\\")
\* the escape left out: the text as decoded
EscapeNewlines_Identity(text) == text

EscapeNewlines(text) ==
    [j \in 1..Len(text) |-> IF text[j] = LF THEN BACKSLASH ELSE text[j]]

RECURSIVE JoinLines(_)
\* extractedTexts.join("\n")
JoinLines(lines) ==
    IF lines = << >> THEN << >>
    ELSE IF Len(lines) = 1 THEN lines[1]
    ELSE lines[1] \o <<LF>> \o JoinLines(Tail(lines))

\* outputContent of extractDirectory
ExtractContent(textBlocks) ==
    JoinLines([i \in 1..Len(textBlocks) |-> EscapeNewlines(textBlocks[i].jpText)])
        \o <<LF>>

ExtractWrite ==
    /\ pc = "scanned"
    /\ cmd = "extract"
    /\ jpTxt' = ExtractContent(blocks)
    /\ pc' = "extracted"
    /\ UNCHANGED <<buffer, txt, outFile, cmd, unedited>>
    /\ UNCHANGED scanVars
    /\ UNCHANGED injVars
    /\ UNCHANGED auxVars

\* the extracted file is placed unedited in the translator directory and
\* the inject command is run on the same CC file
CopyUnedited ==
    /\ pc = "extracted"
    /\ txt' = jpTxt
    /\ unedited' = TRUE
    /\ cmd' = "inject"
    /\ pc' = "scan"
    /\ ccPos' = HEADER_SIZE
    /\ curCmdPos' = -1
    /\ blocks' = << >>
    /\ UNCHANGED <<buffer, jpTxt, outFile>>
    /\ UNCHANGED injVars
    /\ UNCHANGED auxVars

----------------------------------------------------------------------------
(* injectFile *)

\* content.split("\n"): the pieces between consecutive "\n"
Split(content) ==
    LET nl == {i \in 1..Len(content) : content[i] = LF}
        n  == Cardinality(nl)
        at(k) == IF k = 0 THEN 0
                 ELSE IF k = n + 1 THEN Len(content) + 1
                 ELSE CHOOSE i \in nl : Cardinality({j \in nl : j < i}) = k - 1
    IN  [k \in 1..(n + 1) |-> SubSeq(content, at(k - 1) + 1, at(k) - 1)]

\* line.replaceAll('\\', '\n')
UnescapeNewlines(line) ==
    [j \in 1..Len(line) |-> IF line[j] = BACKSLASH THEN LF ELSE line[j]]

\* enTxtContent.split("\n").filter(line => line !== "").map(...)
EnLinesOf(content) ==
    LET kept == SelectSeq(Split(content), LAMBDA l : l # << >>)
    IN  [i \in 1..Len(kept) |-> UnescapeNewlines(kept[i])]

\* the pre-check with < in place of !==
CountMismatch_Fewer(textBlocks, lines) == Len(lines) < Len(textBlocks)

\* the pre-check: textBlocks.length !== enLines.length
CountMismatch(textBlocks, lines) == Len(textBlocks) # Len(lines)

\* the body of the loop putting the break at the current character instead
\* of the last space
WrapStep_BreakAtCurrent(st, i) ==
    LET char == st.chars[i + 1]
        sp   == IF char = SPACE THEN i ELSE st.lastSpacePos
        w    == IF char = LF THEN 0 ELSE st.width + 1
        lsp  == IF char = LF THEN -1 ELSE sp
    IN  IF w >= maxWidth
        THEN IF lsp # -1
             THEN [chars |-> [st.chars EXCEPT ![i + 1] = LF],
                   width |-> i - lsp, lastSpacePos |-> -1]
             ELSE [chars |-> st.chars, width |-> 0, lastSpacePos |-> lsp]
        ELSE [chars |-> st.chars, width |-> w, lastSpacePos |-> lsp]

\* the body of the for loop of processEnText at index i (0-based),
\* st = [chars, width, lastSpacePos]
WrapStep(st, i) ==
    LET char == st.chars[i + 1]
        sp   == IF char = SPACE THEN i ELSE st.lastSpacePos
        w    == IF char = LF THEN 0 ELSE st.width + 1
        lsp  == IF char = LF THEN -1 ELSE sp
    IN  IF w >= maxWidth
        THEN IF lsp # -1
             THEN [chars |-> [st.chars EXCEPT ![lsp + 1] = LF],
                   width |-> i - lsp, lastSpacePos |-> -1]
             ELSE [chars |-> st.chars, width |-> 0, lastSpacePos |-> lsp]
        ELSE [chars |-> st.chars, width |-> w, lastSpacePos |-> lsp]

RECURSIVE WrapRun(_, _, _)
\* the for loop over the indexes lo..hi, by halves
WrapRun(st, lo, hi) ==
    IF lo > hi THEN st
    ELSE IF lo = hi THEN WrapStep(st, lo)
    ELSE LET mid  == (lo + hi) \div 2
             left == WrapRun(st, lo, mid)
         IN  IF left.width < 0 THEN left
             ELSE WrapRun(left, mid + 1, hi)

processEnText(enText) ==
    WrapRun([chars |-> enText, width |-> 0, lastSpacePos |-> -1],
            0, Len(enText) - 1).chars

\* Buffer.from([0xFD, enLen, ...enBytes, 0x00])
BuildEnBuffer(enBytes) == <<TEXT_MARKER, Len(enBytes)>> \o enBytes \o <<NUL>>

\* enLen > 0xFF
Oversize(enBytes) == Len(enBytes) > MAX_EN_LEN

\* the test with the sign of the size change flipped
BudgetAccepts_SignFlipped(newLen, diffLen) == newLen - diffLen <= MAX_U16

\* newLen + diffLen <= 0xFFFF
BudgetAccepts_Strict(newLen, diffLen) == newLen + diffLen < MAX_U16

BudgetAccepts(newLen, diffLen) == newLen + diffLen <= MAX_U16

\* buffer.indexOf(sub, from): the least position >= from where sub occurs, or -1
IndexOf(buf, sub, from) ==
    LET hits == {q \in from..(Len(buf) - Len(sub)) : Sub(buf, q, q + Len(sub)) = sub}
    IN  IF hits = {} THEN -1
        ELSE CHOOSE q \in hits : \A r \in hits : q <= r

\* replaceBuffer: found = FALSE stands for the throw
replaceBuffer(buf, subArrayToReplace, replacementSubArray, from) ==
    LET startPos == IndexOf(buf, subArrayToReplace, from)
        endPos   == startPos + Len(subArrayToReplace)
    IN  IF startPos = -1
        THEN [found |-> FALSE, buffer |-> buf, pos |-> from]
        ELSE [found |-> TRUE,
              buffer |-> Sub(buf, 0, startPos) \o replacementSubArray
                            \o Sub(buf, endPos, Len(buf)),
              pos |-> startPos]

\* lines 30-39: read the translator file, pre-check, attach the lines
PreCheck ==
    /\ pc = "scanned"
    /\ cmd = "inject"
    /\ LET lines == EnLinesOf(txt) IN
        /\ enLines' = lines
        /\ IF CountMismatch(blocks, lines)
           THEN /\ result' = [result EXCEPT !.fail = TRUE]
                /\ pc' = "done"
                /\ UNCHANGED <<blocks, idx>>
           ELSE /\ blocks' = [i \in 1..Len(blocks) |->
                                [blocks[i] EXCEPT !.enText = lines[i]]]
                /\ pc' = "encode"
                /\ idx' = 1
                /\ UNCHANGED result
    /\ UNCHANGED <<buffer, txt, jpTxt, outFile, cmd, unedited>>
    /\ UNCHANGED <<ccPos, curCmdPos, lens, newBuffer, basePos>>
    /\ UNCHANGED auxVars

\* lines 42-56: one call of the first forEach callback
EncodeStep ==
    /\ pc = "encode"
    /\ idx <= Len(blocks)
    /\ LET enBytes == Encode(processEnText(blocks[idx].enText)) IN
        IF Oversize(enBytes)
        THEN /\ result' = [result EXCEPT !.halfSuccess = TRUE]
             /\ lens' = [lens EXCEPT !.lostLines = @ + 1]
             /\ UNCHANGED blocks
        ELSE /\ blocks' = [blocks EXCEPT ![idx].enBuffer = BuildEnBuffer(enBytes)]
             /\ UNCHANGED <<result, lens>>
    /\ idx' = idx + 1
    /\ UNCHANGED <<buffer, txt, jpTxt, outFile, cmd, pc, unedited>>
    /\ UNCHANGED <<ccPos, curCmdPos, enLines, newBuffer, basePos>>
    /\ UNCHANGED auxVars

\* lines 58-61: read the old length
BudgetStart ==
    /\ pc = "encode"
    /\ idx > Len(blocks)
    /\ lens' = [lens EXCEPT !.oldLen = ReadUInt16LE(buffer, LEN_OFFSET),
                            !.newLen = ReadUInt16LE(buffer, LEN_OFFSET),
                            !.totalOverLen = 0]
    /\ pc' = "budget"
    /\ idx' = 1
    /\ UNCHANGED <<buffer, txt, jpTxt, outFile, cmd, unedited>>
    /\ UNCHANGED <<ccPos, curCmdPos, blocks, enLines, result, newBuffer, basePos>>
    /\ UNCHANGED auxVars

\* an overflow counted as the size change of the record alone
OverLen_DiffOnly(newLen, diffLen) == diffLen

\* const overLen = newLen + diffLen - 0xFFFF
OverLen(newLen, diffLen) == newLen + diffLen - MAX_U16

\* lines 62-77: one call of the second forEach callback
BudgetStep ==
    /\ pc = "budget"
    /\ idx <= Len(blocks)
    /\ LET block   == blocks[idx]
           diffLen == Len(block.enBuffer) - Len(block.jpBuffer)
       IN  IF BudgetAccepts(lens.newLen, diffLen)
           THEN /\ lens' = [lens EXCEPT !.newLen = @ + diffLen]
                /\ UNCHANGED <<blocks, result>>
           ELSE /\ blocks' = [blocks EXCEPT ![idx].enText = block.jpText,
                                            ![idx].enBuffer = block.jpBuffer]
                /\ result' = [result EXCEPT !.halfSuccess = TRUE]
                /\ lens' = [lens EXCEPT
                              !.totalOverLen = @ + OverLen(lens.newLen, diffLen),
                              !.lostLines = @ + 1]
    /\ idx' = idx + 1
    /\ UNCHANGED <<buffer, txt, jpTxt, outFile, cmd, pc, unedited>>
    /\ UNCHANGED <<ccPos, curCmdPos, enLines, newBuffer, basePos>>
    /\ UNCHANGED auxVars

\* lines 78-86: the warning, the copy of the buffer and the write of newLen at
\* 0x14; writeUInt16LE throws a RangeError for a value outside 0..0xFFFF and
\* injectFile ends without a result and without an output file
RewriteStart ==
    /\ pc = "budget"
    /\ idx > Len(blocks)
    /\ IF lens.newLen < 0 \/ lens.newLen > MAX_U16
       THEN /\ pc' = "thrown"
            /\ result' = IF lens.lostLines > 0
                         THEN [result EXCEPT !.halfSuccess = TRUE] ELSE result
            /\ UNCHANGED <<newBuffer, basePos, idx>>
       ELSE /\ pc' = "rewrite"
            /\ result' = IF lens.lostLines > 0
                         THEN [result EXCEPT !.halfSuccess = TRUE] ELSE result
            /\ newBuffer' = WriteUInt16LE(buffer, lens.newLen, LEN_OFFSET)
            /\ basePos' = BODY_START
            /\ idx' = 1
    /\ UNCHANGED <<buffer, txt, jpTxt, outFile, cmd, unedited>>
    /\ UNCHANGED <<ccPos, curCmdPos, blocks, enLines, lens>>
    /\ UNCHANGED auxVars

\* lines 87-98: one pass of the for-of loop
RewriteStep ==
    /\ pc = "rewrite"
    /\ idx <= Len(blocks)
    /\ LET r == replaceBuffer(newBuffer, blocks[idx].jpBuffer,
                              blocks[idx].enBuffer, basePos)
       IN  IF r.found
           THEN /\ newBuffer' = r.buffer
                /\ basePos' = r.pos
                /\ UNCHANGED result
           ELSE /\ result' = [result EXCEPT !.fail = TRUE]
                /\ UNCHANGED <<newBuffer, basePos>>
    /\ idx' = idx + 1
    /\ UNCHANGED <<buffer, txt, jpTxt, outFile, cmd, pc, unedited>>
    /\ UNCHANGED <<ccPos, curCmdPos, blocks, enLines, lens>>
    /\ UNCHANGED auxVars

\* lines 101-106 without the reset of halfSuccess on a failure
Settle_KeepHalf(res) ==
    [success     |-> ~res.halfSuccess /\ ~res.fail,
     halfSuccess |-> res.halfSuccess,
     fail        |-> res.fail]

\* lines 101-106: success when neither halfSuccess nor fail is set; a failure
\* clears halfSuccess
Settle(res) ==
    [success     |-> ~res.halfSuccess /\ ~res.fail,
     halfSuccess |-> res.halfSuccess /\ ~res.fail,
     fail        |-> res.fail]

\* injectDirectory, lines 152-168: the branch taken for a result
Classify(res) ==
    IF res.success THEN "success"
    ELSE IF res.halfSuccess THEN "halfSuccess"
    ELSE IF res.fail THEN "fail"
    ELSE "unknown"

\* lines 99-107: write the output file and settle the result
WriteOut ==
    /\ pc = "rewrite"
    /\ idx > Len(blocks)
    /\ outFile' = [exists |-> TRUE, data |-> newBuffer]
    /\ result' = Settle(result)
    /\ pc' = "done"
    /\ UNCHANGED <<buffer, txt, jpTxt, cmd, unedited>>
    /\ UNCHANGED <<ccPos, curCmdPos, blocks, enLines, idx, lens, newBuffer, basePos>>
    /\ UNCHANGED auxVars

----------------------------------------------------------------------------
(* Inputs *)

RECURSIVE SeqsUpTo(_, _)
\* the sequences over S of length at most n
SeqsUpTo(S, n) ==
    IF n = 0 THEN {<< >>}
    ELSE LET shorter == SeqsUpTo(S, n - 1)
         IN  shorter \cup {Append(s, x) : s \in shorter, x \in S}

RECURSIVE Flatten(_)
Flatten(ss) == IF ss = << >> THEN << >> ELSE Head(ss) \o Flatten(Tail(ss))

\* bytes [0x00, 0x14): opaque
Prefix == [i \in 1..20 |-> i]

\* a decompressed container: prefix, the u16 field, bytes 0x16 and 0x17, body
Container(field, hi, body) ==
    Prefix \o <<field % 256, field \div 256>> \o hi \o body

ScanAlphabet == {0, 1, 2, 65, 129, 253}
ScanHi == {<<0, 0>>, <<253, 1>>, <<253, 2>>}
ScanSpecials ==
    { <<253, 3, 18, 251, 1, 0>>,
      <<253, 3, 18, 251, 1, 0, 253, 1, 65, 0>>,
      <<253, 2, 253, 1, 65, 0>>,
      <<253, 1, 65, 0, 253, 2, 65, 65, 0>>,
      <<7, 253, 3, 65, 129, 65, 0, 253>> }
ScanBodies == SeqsUpTo(ScanAlphabet, MaxBody) \cup ScanSpecials

NoFile == [exists |-> FALSE, data |-> << >>]
NoResult == [success |-> FALSE, halfSuccess |-> FALSE, fail |-> FALSE]
NoLens == [oldLen |-> 0, newLen |-> 0, totalOverLen |-> 0, lostLines |-> 0]

\* no call of processEnText of its own is under way
NoWrap == wrapIn = << >> /\ wrapOut = [done |-> FALSE, text |-> << >>]

\* a file operation that has not run
NotRun == [done |-> FALSE, ok |-> FALSE, data |-> << >>]

\* no compress or decompress run is under way
NoCodec ==
    /\ plain = << >>
    /\ packed = NotRun
    /\ unpacked = NotRun
    /\ lzStream = [done |-> FALSE, data |-> << >>]
    /\ lzBack = NotRun

NoCounts == [successCount |-> 0, halfSuccessCount |-> 0, failCount |-> 0]

\* no batch of the driver is under way
NoBatch ==
    /\ command = "none"
    /\ files = << >>
    /\ fileIdx = 1
    /\ attempted = {}
    /\ counts = NoCounts
    /\ mainPc = "start"
    /\ exitStatus = -1
    /\ importPc = "idle"
    /\ openHandles = 0
    /\ pending = FALSE
    /\ writerCalls = << >>

InitScan ==
    /\ \E body \in ScanBodies, hi \in ScanHi :
          buffer = Container(Len(body), hi, body)
    /\ txt = << >>
    /\ jpTxt = << >>
    /\ outFile = NoFile
    /\ cmd = "scan"
    /\ pc = "scan"
    /\ ccPos = HEADER_SIZE
    /\ curCmdPos = -1
    /\ blocks = << >>
    /\ enLines = << >>
    /\ idx = 0
    /\ result = NoResult
    /\ lens = NoLens
    /\ newBuffer = << >>
    /\ basePos = 0
    /\ unedited = FALSE
    /\ NoWrap
    /\ NoCodec
    /\ NoBatch

NextScan == ScanStep \/ ScanDone

SpecScan == InitScan /\ [][NextScan]_vars

\* the scanner runs on: the while loop is a sequential program, a pass that
\* can be made is made
SpecScanLive == SpecScan /\ WF_vars(NextScan)

----------------------------------------------------------------------------
(* The extract and inject runs *)

\* a string of n copies of the character c
Rep(c, n) == [i \in 1..n |-> c]

\* the byte group FD len text 00 of a text
Rec(text) == <<253, Len(text)>> \o text \o <<0>>

\* a record of 54 characters with one space
LongRecord == Rec(Rep(65, 30) \o <<32>> \o Rep(66, 23))

Frags ==
    { Rec(<<65>>), Rec(<<65, 65>>), Rec(<<92>>), Rec(<<65, 10, 66>>),
      Rec(<<130, 160>>), <<65, 0>> }
Bodies == {Flatten(fs) : fs \in SeqsUpTo(Frags, MaxFrags)} \cup {LongRecord}
Fields(body) == {Len(body), 0, 65534}
Hi == {<<0, 0>>, <<253, 1>>}

\* a translator line longer than 255 bytes once encoded
OversizeLine == Rep(65, 256)
Lines == { <<65>>, <<66>>, <<65, 66>>, <<65, 66, 66>> }
\* the translator line "GOTO a"
GotoLine == <<71, 79, 84, 79, 32, 97>>
\* a translator file: its lines, each ended by "\n"
FileOf(ls) == Flatten([i \in 1..Len(ls) |-> ls[i] \o <<LF>>])
TxtFiles ==
    {FileOf(ls) : ls \in SeqsUpTo(Lines, MaxLines)}
        \cup { FileOf(<<OversizeLine>>),
               FileOf(<<OversizeLine, <<66>> >>),
               FileOf(<< <<66>>, OversizeLine>>),
               FileOf(<< <<65, 66, 66, 66>> >>),
               FileOf(<<GotoLine>>),
               FileOf(<<GotoLine, <<66>> >>),
               FileOf(<< <<66>>, GotoLine>>),
               <<65, 10, 10, 66, 10>>,
               <<65, 10, 66>> }

\* the file at outputPath before the run
OldOut == [exists |-> TRUE, data |-> <<1>>]

Init ==
    /\ \E body \in Bodies, hi \in Hi :
          \E field \in Fields(body) : buffer = Container(field, hi, body)
    /\ \/ cmd = "inject" /\ txt \in TxtFiles
       \/ cmd = "extract" /\ txt = << >>
    /\ jpTxt = << >>
    /\ outFile = OldOut
    /\ pc = "scan"
    /\ ccPos = HEADER_SIZE
    /\ curCmdPos = -1
    /\ blocks = << >>
    /\ enLines = << >>
    /\ idx = 0
    /\ result = NoResult
    /\ lens = NoLens
    /\ newBuffer = << >>
    /\ basePos = 0
    /\ unedited = FALSE
    /\ NoWrap
    /\ NoCodec
    /\ NoBatch

Next ==
    \/ ScanStep
    \/ ScanDone
    \/ ExtractWrite
    \/ CopyUnedited
    \/ PreCheck
    \/ EncodeStep
    \/ BudgetStart
    \/ BudgetStep
    \/ RewriteStart
    \/ RewriteStep
    \/ WriteOut

Spec == Init /\ [][Next]_vars

----------------------------------------------------------------------------
(* processEnText on its own *)

\* no extract or inject run is under way
NoRun ==
    /\ buffer = << >>
    /\ txt = << >>
    /\ jpTxt = << >>
    /\ outFile = NoFile
    /\ cmd = "none"
    /\ pc = "none"
    /\ ccPos = HEADER_SIZE
    /\ curCmdPos = -1
    /\ blocks = << >>
    /\ enLines = << >>
    /\ idx = 0
    /\ result = NoResult
    /\ lens = NoLens
    /\ newBuffer = << >>
    /\ basePos = 0
    /\ unedited = FALSE

\* lengths of the runs of letters: short ones and ones around maxWidth
RunLens == (0..MaxPad) \cup ((maxWidth - 1 - MaxPad)..(maxWidth + MaxPad))
Seps == { << >>, <<SPACE>>, <<LF>> }
\* replacement strings: three runs of letters around two optional separators
WrapInputs ==
    { Rep(65, a) \o s1 \o Rep(66, b) \o s2 \o Rep(67, c) :
        a \in RunLens, b \in RunLens, c \in RunLens, s1 \in Seps, s2 \in Seps }

InitWrap ==
    /\ NoRun
    /\ wrapIn \in WrapInputs
    /\ wrapOut = [done |-> FALSE, text |-> << >>]
    /\ NoCodec
    /\ NoBatch

\* a call processEnText(wrapIn)
WrapCall ==
    /\ ~wrapOut.done
    /\ wrapOut' = [done |-> TRUE, text |-> processEnText(wrapIn)]
    /\ UNCHANGED wrapIn
    /\ UNCHANGED <<coreVars, codecVars, batchVars>>

NextWrap == WrapCall

SpecWrap == InitWrap /\ [][NextWrap]_vars

----------------------------------------------------------------------------
(* lzss-tool: the LZSS codec *)

RING_SIZE  == 4096           \* the ring buffer
MIN_MATCH  == 3              \* shortest back-reference
MAX_MATCH  == 18             \* longest back-reference
RING_START == 4078           \* ring position of the first byte stored
FILL_BYTE  == 0              \* -n 0x00: the ring is filled with 0x00

\* the byte at position pos of the ring once the first n bytes of data are
\* stored, the first at RING_START
RingAt(data, n, pos) ==
    LET k0 == (pos + RING_SIZE - RING_START) % RING_SIZE
    IN  IF k0 >= n THEN FILL_BYTE
        ELSE data[k0 + RING_SIZE * ((n - 1 - k0) \div RING_SIZE) + 1]

\* the little-endian 32-bit value at off
ReadUInt32LE(buf, off) ==
    buf[off + 1] + 256 * buf[off + 2] + 65536 * buf[off + 3] + 16777216 * buf[off + 4]

\* the 4 bytes of v, little-endian
UInt32LE(v) ==
    <<v % 256, (v \div 256) % 256, (v \div 65536) % 256, (v \div 16777216) % 256>>

RECURSIVE CopyMatch(_, _, _)
\* the output after a back-reference of len bytes from ring position off,
\* copied byte by byte (each byte copied is stored before the next is read)
CopyMatch(out, off, len) ==
    IF len = 0 THEN out
    ELSE CopyMatch(Append(out, RingAt(out, Len(out), off % RING_SIZE)),
                   off + 1, len - 1)

\* the ring position of a back-reference (lo, hi)
RefOffset(lo, hi) == lo + 256 * (hi % 16)

\* the length read from the low nibble of hi
RefLength_LowNibble(hi) == (hi % 16) + MIN_MATCH

\* the length of a back-reference (lo, hi): the high nibble of hi, plus 3
RefLength(hi) == (hi \div 16) + MIN_MATCH

RECURSIVE LzDecode(_, _, _, _, _, _)
\* the decoder at byte i (1-based) of the payload s, with the flag byte of
\* the current block and the number of its tokens taken; limit is the
\* declared size, or -1 without one.  Bit b of a flag byte is 1 for a literal
\* and 0 for a back-reference (offset_low, (length-3)<<4 | offset_high).
LzDecode(s, i, out, flag, bit, limit) ==
    IF limit >= 0 /\ Len(out) >= limit
    THEN [ok |-> TRUE, data |-> SubSeq(out, 1, limit)]
    ELSE IF bit = 8
    THEN IF i > Len(s) THEN [ok |-> TRUE, data |-> out]
         ELSE LzDecode(s, i + 1, out, s[i], 0, limit)
    ELSE IF (flag \div (2 ^ bit)) % 2 = 1
    THEN IF i > Len(s) THEN [ok |-> FALSE, data |-> << >>]
         ELSE LzDecode(s, i + 1, Append(out, s[i]), flag, bit + 1, limit)
    ELSE IF i > Len(s) THEN [ok |-> TRUE, data |-> out]
    ELSE IF i + 1 > Len(s) THEN [ok |-> FALSE, data |-> << >>]
    ELSE LET off == RefOffset(s[i], s[i + 1])
             len == RefLength(s[i + 1])
         IN  LzDecode(s, i + 2, CopyMatch(out, off, len), flag, bit + 1, limit)

\* lzss-tool -d: with sized (-a o4) the stream starts with the 4-byte
\* little-endian decompressed size
LzssDecompress(stream, sized) ==
    IF ~sized THEN LzDecode(stream, 1, << >>, 0, 8, -1)
    ELSE IF Len(stream) < 4 THEN [ok |-> FALSE, data |-> << >>]
    ELSE LzDecode(SubSeq(stream, 5, Len(stream)), 1, << >>, 0, 8,
                  ReadUInt32LE(stream, 0))

\* the length of the longest start of data[i..] (i 0-based) that a
\* back-reference from ring position p reproduces, at most MAX_MATCH
MatchLen(data, i, p) ==
    LET most == IF Len(data) - i < MAX_MATCH THEN Len(data) - i ELSE MAX_MATCH
        good(L) == \A j \in 0..(L - 1) :
                      RingAt(data, i + j, (p + j) % RING_SIZE) = data[i + j + 1]
    IN  CHOOSE L \in 0..most : good(L) /\ (L = most \/ ~good(L + 1))

\* the ring positions a match may start at with i bytes stored: the
\* MAX_MATCH fill positions before RING_START and the positions stored
Candidates(i) ==
    LET last == IF MAX_MATCH + i > RING_SIZE THEN RING_SIZE ELSE MAX_MATCH + i
    IN  {(RING_START + RING_SIZE - MAX_MATCH + c) % RING_SIZE : c \in 0..(last - 1)}

\* a longest match for data[i..]
BestMatch(data, i) ==
    LET mlen == [q \in Candidates(i) |-> MatchLen(data, i, q)]
        best == CHOOSE L \in {mlen[q] : q \in Candidates(i)} :
                    \A q \in Candidates(i) : mlen[q] <= L
    IN  [pos |-> CHOOSE q \in Candidates(i) : mlen[q] = best, len |-> best]

RECURSIVE LzTokens(_, _)
\* the tokens for data[i..]: a back-reference for a match of MIN_MATCH bytes
\* or more, else a literal
LzTokens(data, i) ==
    IF i >= Len(data) THEN << >>
    ELSE LET m == BestMatch(data, i)
         IN  IF m.len >= MIN_MATCH
             THEN <<[lit   |-> FALSE,
                     bytes |-> <<m.pos % 256,
                                 (m.len - MIN_MATCH) * 16 + m.pos \div 256>>]>>
                     \o LzTokens(data, i + m.len)
             ELSE <<[lit |-> TRUE, bytes |-> <<data[i + 1]>>]>>
                     \o LzTokens(data, i + 1)

RECURSIVE FlagOf(_, _)
\* the flag byte of the tokens toks[1..n]
FlagOf(toks, n) ==
    IF n = 0 THEN 0
    ELSE FlagOf(toks, n - 1) + (IF toks[n].lit THEN 2 ^ (n - 1) ELSE 0)

RECURSIVE PackTokens(_)
\* the payload: each block of up to 8 tokens after its flag byte
PackTokens(toks) ==
    IF toks = << >> THEN << >>
    ELSE LET n == IF Len(toks) < 8 THEN Len(toks) ELSE 8
         IN  <<FlagOf(toks, n)>>
                \o Flatten([b \in 1..n |-> toks[b].bytes])
                \o PackTokens(SubSeq(toks, n + 1, Len(toks)))

\* lzss-tool -e: with sized (-a o4) the stream starts with the 4-byte size
LzssCompress(data, sized) ==
    (IF sized THEN UInt32LE(Len(data)) ELSE << >>) \o PackTokens(LzTokens(data, 0))

----------------------------------------------------------------------------
(* compressCC and decompressCC *)

CC_HEADER_SIZE == 24         \* HEADER_SIZE = 0x18 of decompress.ts

\* a file operation that threw
Threw == [done |-> TRUE, ok |-> FALSE, data |-> << >>]

\* decompressCC feeding the codec the bytes from 0x18
decompressCC_From18(file) ==
    IF Len(file) < CC_HEADER_SIZE THEN Threw
    ELSE LET header == Sub(file, 0, CC_HEADER_SIZE)
             r      == LzssDecompress(Sub(file, CC_HEADER_SIZE, Len(file)), TRUE)
         IN  IF ~r.ok THEN Threw
             ELSE [done |-> TRUE, ok |-> TRUE, data |-> header \o r.data]

\* decompressCC: the file written, or the throw
decompressCC(file) ==
    IF Len(file) < CC_HEADER_SIZE THEN Threw
    ELSE LET header == Sub(file, 0, CC_HEADER_SIZE)
             r      == LzssDecompress(Sub(file, CC_HEADER_SIZE - 4, Len(file)), TRUE)
         IN  IF ~r.ok THEN Threw
             ELSE [done |-> TRUE, ok |-> TRUE, data |-> header \o r.data]

\* compressCC: the file written, or the throw
compressCC(file) ==
    IF Len(file) < CC_HEADER_SIZE THEN Threw
    ELSE LET header == Sub(file, 0, CC_HEADER_SIZE)
         IN  [done |-> TRUE, ok |-> TRUE,
              data |-> header \o LzssCompress(Sub(file, CC_HEADER_SIZE, Len(file)), FALSE)]

LzAlphabet == {0, 65, 66}
LzSpecials ==
    { Rep(65, 40), Rep(0, 20), [i \in 1..10 |-> 64 + i],
      <<65, 66, 67, 65, 66, 67, 65, 66, 67, 68>> }
LzData == SeqsUpTo(LzAlphabet, MaxData) \cup LzSpecials
\* files in decompressed form, the field holding the body length or 0, and
\* a file shorter than the header
PlainFiles ==
    { Container(field, hi, body) :
        field \in {0, 65535}, hi \in {<<0, 0>>, <<1, 0>>}, body \in {<< >>} }
    \cup { Container(Len(body), hi, body) : hi \in {<<0, 0>>, <<1, 0>>}, body \in LzData }
    \cup { Container(0, <<0, 0>>, body) : body \in LzData }
    \cup { SubSeq(Prefix, 1, 10) }

InitCodec ==
    /\ NoRun
    /\ NoWrap
    /\ NoBatch
    /\ plain \in PlainFiles
    /\ packed = NotRun
    /\ unpacked = NotRun
    /\ lzStream = [done |-> FALSE, data |-> << >>]
    /\ lzBack = NotRun

\* compressCC on the plain file
CompressFile ==
    /\ ~packed.done
    /\ packed' = compressCC(plain)
    /\ UNCHANGED <<plain, unpacked, lzStream, lzBack>>
    /\ UNCHANGED <<coreVars, wrapVars, batchVars>>

\* decompressCC on the file compressCC wrote
DecompressFile ==
    /\ packed.done /\ packed.ok
    /\ ~unpacked.done
    /\ unpacked' = decompressCC(packed.data)
    /\ UNCHANGED <<plain, packed, lzStream, lzBack>>
    /\ UNCHANGED <<coreVars, wrapVars, batchVars>>

\* the bytes given to the codec on its own: the body of the plain file (the
\* whole file when it has no body)
LzInput ==
    IF Len(plain) < CC_HEADER_SIZE THEN plain
    ELSE Sub(plain, CC_HEADER_SIZE, Len(plain))

\* the codec on its own, with the size prefix
LzCompress ==
    /\ ~lzStream.done
    /\ lzStream' = [done |-> TRUE, data |-> LzssCompress(LzInput, TRUE)]
    /\ UNCHANGED <<plain, packed, unpacked, lzBack>>
    /\ UNCHANGED <<coreVars, wrapVars, batchVars>>

LzDecompress ==
    /\ lzStream.done
    /\ ~lzBack.done
    /\ lzBack' = [done |-> TRUE] @@ LzssDecompress(lzStream.data, TRUE)
    /\ UNCHANGED <<plain, packed, unpacked, lzStream>>
    /\ UNCHANGED <<coreVars, wrapVars, batchVars>>

NextCodec == CompressFile \/ DecompressFile \/ LzCompress \/ LzDecompress

SpecCodec == InitCodec /\ [][NextCodec]_vars

----------------------------------------------------------------------------
(* The driver: main and the five batch operations *)

MaxFiles == 3    \* .CC files in the directory listing

\* the commands of main's switch that run a batch
BatchCommands == {"decompress", "compress", "extract", "inject", "hdi"}

\* what processing one file does.  decompressCC, compressCC and the body of
\* extractDirectory's try return ("ok") or throw ("throw")
TryOutcomes == {"ok", "throw"}

\* injectDirectory: the translator file is absent ("notxt"), injectFile
\* returns a Result with that flag set, or injectFile throws ("throw": a
\* readFileSync of an unreadable input, the writeFileSync of the output)
InjectOutcomes == {"notxt", "success", "halfSuccess", "fail", "throw"}

\* importFileToHdi: it returns ("ok") or readFileSync, the FatImage
\* constructor or replaceFile throws
ImportOutcomes == {"ok", "readThrow", "openThrow", "replaceThrow"}

OutcomesOf(c) ==
    CASE c \in {"decompress", "compress", "extract"} -> TryOutcomes
      [] c = "inject" -> InjectOutcomes
      [] c = "hdi" -> ImportOutcomes

InitBatch ==
    /\ NoRun
    /\ NoWrap
    /\ NoCodec
    /\ command \in BatchCommands
    /\ files \in SeqsUpTo(OutcomesOf(command), MaxFiles)
    /\ fileIdx = 1
    /\ attempted = {}
    /\ counts = NoCounts
    /\ mainPc = "start"
    /\ exitStatus = -1
    /\ importPc = "idle"
    /\ openHandles = 0
    /\ pending = FALSE
    /\ writerCalls = [i \in 1..Len(files) |-> 0]

\* the loop of the batch has a file left
InLoop(c) ==
    /\ command = c
    /\ mainPc = "loop"
    /\ importPc = "idle"
    /\ fileIdx <= Len(files)

\* main enters the case of the command; the directory function lists the
\* .CC files and returns at once when there is none
DirectoryStart ==
    /\ mainPc = "start"
    /\ command \in BatchCommands
    /\ mainPc' = IF Len(files) = 0 THEN "returned" ELSE "loop"
    /\ UNCHANGED writerCalls
    /\ UNCHANGED <<command, files, fileIdx, attempted, counts, exitStatus,
                   importPc, openHandles, pending>>
    /\ UNCHANGED <<coreVars, wrapVars, codecVars>>

\* try { <file>; successCount++ } catch { failCount++ }
TryCatch(c, outcome) ==
    IF outcome = "throw"
    THEN [c EXCEPT !.failCount = @ + 1]
    ELSE [c EXCEPT !.successCount = @ + 1]

\* one pass of a for-of loop whose body is a try/catch
TryCatchPass(c) ==
    /\ InLoop(c)
    /\ attempted' = attempted \cup {fileIdx}
    /\ counts' = TryCatch(counts, files[fileIdx])
    /\ fileIdx' = fileIdx + 1
    /\ UNCHANGED writerCalls
    /\ UNCHANGED <<command, files, mainPc, exitStatus, importPc, openHandles,
                   pending>>
    /\ UNCHANGED <<coreVars, wrapVars, codecVars>>

\* decompressDirectory: one pass of the loop
DecompressPass == TryCatchPass("decompress")

\* compressDirectory: one pass of the loop
CompressPass == TryCatchPass("compress")

\* extractDirectory: one pass of the loop
ExtractPass == TryCatchPass("extract")

\* injectDirectory: the counters after the Result of injectFile is classified
InjectCount(c, outcome) ==
    CASE outcome = "success" -> [c EXCEPT !.successCount = @ + 1]
      [] outcome = "halfSuccess" -> [c EXCEPT !.halfSuccessCount = @ + 1]
      [] outcome = "fail" -> [c EXCEPT !.failCount = @ + 1]
      [] OTHER -> c

\* injectDirectory: one pass of the loop.  A file without translator file is
\* skipped; injectFile is called outside any try, a throw leaves the loop and
\* injectDirectory
InjectPass ==
    /\ InLoop("inject")
    /\ attempted' = attempted \cup {fileIdx}
    /\ counts' = InjectCount(counts, files[fileIdx])
    /\ IF files[fileIdx] = "throw"
       THEN mainPc' = "threw" /\ fileIdx' = fileIdx
       ELSE mainPc' = mainPc /\ fileIdx' = fileIdx + 1
    /\ UNCHANGED writerCalls
    /\ UNCHANGED <<command, files, exitStatus, importPc, openHandles, pending>>
    /\ UNCHANGED <<coreVars, wrapVars, codecVars>>

\* importFileToHdi up to readFileSync(ccFilePath), called by one pass of the
\* loop of importDirectoryToHdi
ImportRead ==
    /\ InLoop("hdi")
    /\ attempted' = attempted \cup {fileIdx}
    /\ writerCalls' = [writerCalls EXCEPT ![fileIdx] = @ + 1]
    /\ importPc' = IF files[fileIdx] = "readThrow" THEN "threw" ELSE "read"
    /\ UNCHANGED <<command, files, fileIdx, counts, mainPc, exitStatus,
                   openHandles, pending>>
    /\ UNCHANGED <<coreVars, wrapVars, codecVars>>

\* new FatImage(hdiPath): a handle, or a throw that leaves none
FatImageOpen(handles, outcome) ==
    IF outcome = "openThrow" THEN handles ELSE handles + 1

\* importFileToHdi: const img = new FatImageClass(hdiPath)
ImportOpen ==
    /\ command = "hdi"
    /\ importPc = "read"
    /\ openHandles' = FatImageOpen(openHandles, files[fileIdx])
    /\ importPc' = IF files[fileIdx] = "openThrow" THEN "threw" ELSE "try"
    /\ UNCHANGED writerCalls
    /\ UNCHANGED <<command, files, fileIdx, attempted, counts, mainPc,
                   exitStatus, pending>>
    /\ UNCHANGED <<coreVars, wrapVars, codecVars>>

\* importFileToHdi: try { img.replaceFile(targetPath, ccData) }
ImportReplace ==
    /\ command = "hdi"
    /\ importPc = "try"
    /\ pending' = (files[fileIdx] = "replaceThrow")
    /\ importPc' = "finally"
    /\ UNCHANGED writerCalls
    /\ UNCHANGED <<command, files, fileIdx, attempted, counts, mainPc,
                   exitStatus, openHandles>>
    /\ UNCHANGED <<coreVars, wrapVars, codecVars>>

\* a close that runs after the try block only when it completed
FinallyClose_NoFinally(handles, threw) ==
    IF threw THEN handles ELSE handles - 1

\* finally { img.close() }: runs whether or not the try block threw
FinallyClose(handles, threw) == handles - 1

\* importFileToHdi: the finally block, then the return or the rethrow
ImportClose ==
    /\ command = "hdi"
    /\ importPc = "finally"
    /\ openHandles' = FinallyClose(openHandles, pending)
    /\ importPc' = IF pending THEN "threw" ELSE "returned"
    /\ UNCHANGED writerCalls
    /\ UNCHANGED <<command, files, fileIdx, attempted, counts, mainPc,
                   exitStatus, pending>>
    /\ UNCHANGED <<coreVars, wrapVars, codecVars>>

\* importDirectoryToHdi: the try/catch around the call, end of the pass
ImportSettle ==
    /\ command = "hdi"
    /\ importPc \in {"returned", "threw"}
    /\ counts' = TryCatch(counts, IF importPc = "threw" THEN "throw" ELSE "ok")
    /\ fileIdx' = fileIdx + 1
    /\ importPc' = "idle"
    /\ pending' = FALSE
    /\ UNCHANGED writerCalls
    /\ UNCHANGED <<command, files, attempted, mainPc, exitStatus, openHandles>>
    /\ UNCHANGED <<coreVars, wrapVars, codecVars>>

\* the statements after the loop: the totals are logged; importDirectoryToHdi
\* alone throws when failCount > 0
DirectoryEnd ==
    /\ mainPc = "loop"
    /\ importPc = "idle"
    /\ fileIdx > Len(files)
    /\ mainPc' = IF command = "hdi" /\ counts.failCount > 0
                 THEN "threw" ELSE "returned"
    /\ UNCHANGED writerCalls
    /\ UNCHANGED <<command, files, fileIdx, attempted, counts, exitStatus,
                   importPc, openHandles, pending>>
    /\ UNCHANGED <<coreVars, wrapVars, codecVars>>

\* main: the catch of the case calls process.exit(1); a call that returns
\* falls out of the switch and the process ends with status 0
MainExit ==
    /\ mainPc \in {"returned", "threw"}
    /\ exitStatus' = IF mainPc = "threw" THEN 1 ELSE 0
    /\ mainPc' = "exited"
    /\ UNCHANGED writerCalls
    /\ UNCHANGED <<command, files, fileIdx, attempted, counts, importPc,
                   openHandles, pending>>
    /\ UNCHANGED <<coreVars, wrapVars, codecVars>>

NextBatch ==
    \/ DirectoryStart
    \/ DecompressPass
    \/ CompressPass
    \/ ExtractPass
    \/ InjectPass
    \/ ImportRead
    \/ ImportOpen
    \/ ImportReplace
    \/ ImportClose
    \/ ImportSettle
    \/ DirectoryEnd
    \/ MainExit

SpecBatch == InitBatch /\ [][NextBatch]_vars

----------------------------------------------------------------------------
(* The scanner's claims, checked under SpecScan *)

\* the walk of check 4 as a function of the index it starts from
WalkEnd(buf, textStart, len) ==
    LET f[i \in 0..(len + 1)] ==
            IF i >= len THEN i
            ELSE IF IsLead(At(buf, textStart + i)) THEN f[i + 2] ELSE f[i + 1]
    IN  f[0]

\* the five checks of the record format at position p
FiveChecks(buf, p) ==
    LET len == At(buf, p + 1) IN
    /\ len > 0
    /\ p + 2 + len < Len(buf) /\ At(buf, p + 2 + len) = 0
    /\ \A i \in (p + 2)..(p + 1 + len) : At(buf, i) # 0
    /\ WalkEnd(buf, p + 2, len) = len
    /\ Sub(buf, p + 2, p + 2 + len) # <<18, 251, 1>>

\* a record was emitted at p by the last pass of the loop
EmittedAt(p) == blocks # << >> /\ blocks[Len(blocks)].position = p

\* C6: at a scan position holding 0xFD a record is emitted if and only if the
\* five checks pass there; every emitted record passes them, and neither
\* FD 01 81 00 nor FD 03 12 FB 01 00 is ever emitted.
C6_EmitIffFiveChecks ==
    /\ (curCmdPos >= 0 /\ At(buffer, curCmdPos) = 253)
          => (EmittedAt(curCmdPos) <=> FiveChecks(buffer, curCmdPos))
    /\ (curCmdPos >= 0 /\ At(buffer, curCmdPos) # 253) => ~EmittedAt(curCmdPos)
    /\ \A i \in 1..Len(blocks) :
          /\ FiveChecks(buffer, blocks[i].position)
          /\ blocks[i].jpBuffer # <<253, 1, 129, 0>>
          /\ blocks[i].jpBuffer # <<253, 3, 18, 251, 1, 0>>

\* a scan that met FD 03 12 FB 01 00, emitted nothing there and emitted the
\* record that follows it
C6_Witness ==
    /\ pc = "scanned"
    /\ Len(buffer) >= 30
    /\ Sub(buffer, 24, 30) = <<253, 3, 18, 251, 1, 0>>
    /\ Len(blocks) = 1
    /\ blocks[1].position = 30

\* C7: no emitted record has a position below 0x18.
C7_NoRecordInHeader ==
    \A i \in 1..Len(blocks) : blocks[i].position >= 24

\* C8: from position p the cursor moves to p+1 when p holds no 0xFD or a 0xFD
\* that fails the checks (and nothing is emitted), and to p+len+3 when a
\* record of length len is emitted at p.
C8_Cursor ==
    [][ (pc = "scan" /\ ccPos < Len(buffer)) =>
          IF At(buffer, ccPos) = 253 /\ FiveChecks(buffer, ccPos)
          THEN /\ Len(blocks') = Len(blocks) + 1
               /\ blocks'[Len(blocks')].position = ccPos
               /\ ccPos' = ccPos + At(buffer, ccPos + 1) + 3
          ELSE /\ blocks' = blocks
               /\ ccPos' = ccPos + 1 ]_vars

\* a record that starts inside a rejected candidate was emitted, and the
\* cursor stands one past its terminator
C8_Witness ==
    /\ pc = "scan"
    /\ blocks # << >>
    /\ LET b == blocks[Len(blocks)] IN
          /\ \E q \in 24..(b.position - 1) :
                /\ At(buffer, q) = 253
                /\ At(buffer, q + 1) > 0
                /\ b.position <= q + 2 + At(buffer, q + 1)
          /\ curCmdPos = b.position
          /\ ccPos = b.position + b.length + 3
          /\ At(buffer, ccPos - 1) = 0

\* record i as the claim describes it: inside the buffer, marker, length
\* byte, text without 0x00, terminator
WellFormed(i) ==
    LET p   == blocks[i].position
        len == blocks[i].length
    IN  /\ p >= 0
        /\ p + len + 3 <= Len(buffer)
        /\ At(buffer, p) = 253
        /\ At(buffer, p + 1) = len
        /\ 1 <= len /\ len <= 255
        /\ \A j \in (p + 2)..(p + 1 + len) : At(buffer, j) # 0
        /\ At(buffer, p + 2 + len) = 0

\* the records found so far are in increasing order and do not overlap
Disjoint ==
    \A i \in 1..(Len(blocks) - 1) :
        blocks[i].position + blocks[i].length + 3 <= blocks[i + 1].position

\* C28: for every input buffer the scanner terminates, and the records it
\* returns are in strictly increasing position order with pairwise disjoint
\* byte ranges [position, position+len+3), each wholly inside the buffer, each
\* with 0xFD at position, len at position+1 with 1 <= len <= 255, no 0x00
\* among its len text bytes and 0x00 at position+2+len.
C28_ScanWellFormed ==
    /\ [](Disjoint /\ \A i \in 1..Len(blocks) : WellFormed(i))
    /\ <>(pc = "scanned")

\* a finished scan that returned two adjacent records
C28_Witness ==
    /\ pc = "scanned"
    /\ Len(blocks) = 2
    /\ blocks[1].position = 24
    /\ blocks[2].position = 28
    /\ blocks[2].length = 2

----------------------------------------------------------------------------
(* The injector's claims, checked under Spec *)

Body(buf) == Sub(buf, 24, Len(buf))
Field(buf) == ReadUInt16LE(buf, 20)

\* injectFile returned after writing its output file
Written == pc = "done" /\ cmd = "inject" /\ Len(enLines) = Len(blocks)

\* every record the scanner found lies in the body
RecordsInBody == \A i \in 1..Len(blocks) : blocks[i].position >= 24

\* the bytes of record i in the input
Original(i) ==
    Sub(buffer, blocks[i].position, blocks[i].position + blocks[i].length + 3)

\* the bytes built for line i: FD len bytes 00
Built(i) ==
    LET bytes == Encode(processEnText(enLines[i]))
    IN  <<253, Len(bytes)>> \o bytes \o <<0>>

\* line i is longer than 255 bytes once wrapped and encoded
TooLong(i) == Len(Encode(processEnText(enLines[i]))) > 255

\* C1: when the input's field at 0x14 equals the length of its body and the
\* replacement list matches the record count, the field at 0x14 of the
\* written file equals the length of its body, which is at most 0xFFFF.
C1_BudgetInvariant ==
    (Written /\ Field(buffer) = Len(Body(buffer)))
        => /\ Field(outFile.data) = Len(Body(outFile.data))
           /\ Len(Body(outFile.data)) <= 65535

RECURSIVE Rebuilt(_, _)
\* the input from offset `from` on with the bytes of the records k.. replaced
\* by the bytes injection settled on for them
Rebuilt(k, from) ==
    IF k > Len(blocks) THEN Sub(buffer, from, Len(buffer))
    ELSE Sub(buffer, from, blocks[k].position)
            \o blocks[k].enBuffer
            \o Rebuilt(k + 1, blocks[k].position + blocks[k].length + 3)

\* C2: the written body is the input body with the bytes of every accepted
\* record replaced by its new bytes, the bytes of every skipped record kept,
\* and every byte outside the records unchanged and in order (stated here for
\* the inputs whose records all lie in the body).
C2_InjectionCorrectness ==
    (Written /\ RecordsInBody) => Body(outFile.data) = Rebuilt(1, 24)

\* C3: when the number of non-empty lines of the translator file differs from
\* the number of scanned records, injectFile returns a fail result and the
\* output path is left as it was before the call.
C3_MismatchFails ==
    (pc = "done" /\ cmd = "inject" /\ Len(EnLinesOf(txt)) # Len(blocks))
        => /\ result.fail
           /\ ~result.success
           /\ ~result.halfSuccess
           /\ outFile = OldOut

C3_Witness ==
    /\ pc = "done"
    /\ cmd = "inject"
    /\ Len(blocks) = 2
    /\ Len(EnLinesOf(txt)) = 1
    /\ result.fail
    /\ outFile = OldOut

RECURSIVE Shift(_)
\* the sum of the size changes of the records 1..i as injection settled them:
\* the distance the bytes after record i of the input moved in the output
Shift(i) ==
    IF i = 0 THEN 0
    ELSE Shift(i - 1) + Len(blocks[i].enBuffer) - Len(blocks[i].jpBuffer)

\* C4: a line longer than 255 bytes once encoded skips only its record: the
\* record keeps its original bytes in the output, the result is partial, the
\* later records still pass the budget and rewrite steps (a later record that
\* fits carries its new bytes), and the output file is written.
C4_OversizeSkipsOneRecord ==
    (Written /\ RecordsInBody) =>
        \A i \in 1..Len(blocks) : TooLong(i) =>
            /\ outFile.exists
            /\ outFile.data = newBuffer
            /\ result.halfSuccess
            /\ ~result.success
            /\ ~result.fail
            /\ Sub(outFile.data, blocks[i].position + Shift(i - 1),
                   blocks[i].position + Shift(i - 1) + blocks[i].length + 3)
                 = Original(i)
            /\ \A j \in (i + 1)..Len(blocks) :
                  (~TooLong(j) /\ blocks[j].enBuffer = Built(j)) =>
                      Sub(outFile.data, blocks[j].position + Shift(j - 1),
                          blocks[j].position + Shift(j - 1) + Len(Built(j)))
                        = Built(j)

\* one step of the budget pass as the claim describes it
C5_Step ==
    (pc = "budget" /\ idx <= Len(blocks)) =>
        LET L == lens.newLen
            D == Len(blocks[idx].enBuffer) - Len(blocks[idx].jpBuffer)
        IN  /\ idx' = idx + 1
            /\ pc' = "budget"
            /\ \A j \in 1..Len(blocks) : j # idx => blocks'[j] = blocks[j]
            /\ IF L + D <= 65535
               THEN /\ lens'.newLen = L + D
                    /\ blocks'[idx] = blocks[idx]
                    /\ result' = result
               ELSE /\ lens'.newLen = L
                    /\ blocks'[idx].enBuffer = Original(idx)
                    /\ result'.halfSuccess

\* the running length starts at the field; the field written is the initial
\* value plus the size changes of the records as injection settled them (a
\* rejected record ends with its original bytes, a change of 0)
C5_Final ==
    /\ (pc = "budget" /\ idx = 1) => lens.newLen = Field(buffer)
    /\ Written => Field(outFile.data) = Field(buffer) + Shift(Len(blocks))

\* C5: the budget pass visits the records in order with a running length L
\* that starts at the u16 at 0x14; a record with size change D is accepted
\* exactly when L + D <= 0xFFFF and then L becomes L + D, otherwise only that
\* record reverts to its original bytes, L is unchanged, the file becomes
\* partial and the later records are still considered; the value written at
\* 0x14 is the initial value plus the sum of D over the accepted records.
C5_BudgetPass == [][C5_Step]_vars /\ []C5_Final

C5_Witness ==
    /\ Written
    /\ Len(blocks) = 2
    /\ Field(buffer) = 65534
    /\ blocks[1].enBuffer = Original(1)
    /\ Built(1) # Original(1)
    /\ ~TooLong(1)
    /\ blocks[2].enBuffer = Built(2)
    /\ Len(Built(2)) = Len(Original(2)) + 1
    /\ Field(outFile.data) = 65535
    /\ result.halfSuccess

\* C9: extracting a script and injecting the extracted file back unedited
\* writes an output whose body is byte-identical to the input body.
C9_RoundTrip ==
    (pc = "done" /\ cmd = "inject" /\ unedited)
        => /\ outFile.exists
           /\ Len(outFile.data) >= 24
           /\ Body(outFile.data) = Body(buffer)

\* C10: the extracted file has one line per scanned record in source order,
\* each 0x0A of the decoded text rendered as a backslash, followed by a
\* trailing newline, and splitting it the way injection does yields as many
\* lines as the scanner found records.
C10_OneLinePerRecord ==
    (pc = "extracted") =>
        LET n     == Len(blocks)
            head  == SubSeq(jpTxt, 1, Len(jpTxt) - 1)
            parts == Split(head)
        IN  /\ Len(jpTxt) >= 1
            /\ jpTxt[Len(jpTxt)] = 10
            /\ (n = 0) => head = << >>
            /\ (n > 0) =>
                  /\ Len(parts) = n
                  /\ \A i \in 1..n :
                        /\ parts[i] # << >>
                        /\ parts[i] = [k \in 1..Len(blocks[i].jpText) |->
                                         IF blocks[i].jpText[k] = 10 THEN 92
                                         ELSE blocks[i].jpText[k]]
            /\ Len(EnLinesOf(jpTxt)) = n

C10_Witness ==
    /\ pc = "extracted"
    /\ Len(blocks) = 2
    /\ \E k \in 1..Len(blocks[1].jpText) : blocks[1].jpText[k] = 10
    /\ Len(EnLinesOf(jpTxt)) = 2

\* the line begins with "GOTO "
IsGoto(line) == Len(line) >= 5 /\ SubSeq(line, 1, 5) = <<71, 79, 84, 79, 32>>

\* the bytes 07 FD len(sjis(s)) sjis(s) 00 for the line "GOTO " ++ s
GotoBytes(line) ==
    LET bytes == Encode(SubSeq(line, 6, Len(line)))
    IN  <<7, 253, Len(bytes)>> \o bytes \o <<0>>

\* C12: a translator line "GOTO " ++ s is injected as exactly the bytes
\* 07 FD len(sjis(s)) sjis(s) 00 in place of the original record, without the
\* prefix in the text (stated for the runs that replaced every record, with
\* all records in the body).
C12_GotoForm ==
    (Written /\ RecordsInBody /\ result.success) =>
        \A i \in 1..Len(blocks) : IsGoto(enLines[i]) =>
            LET g == GotoBytes(enLines[i])
                p == blocks[i].position + Shift(i - 1)
            IN  /\ p + Len(g) <= Len(outFile.data)
                /\ Sub(outFile.data, p, p + Len(g)) = g

\* the translator file does not have one non-empty line per record
Mismatch == Len(EnLinesOf(txt)) # Len(blocks)

\* some record ended the run without the bytes built for its line
Skipped == \E i \in 1..Len(blocks) : blocks[i].enBuffer # Built(i)

RECURSIVE BuiltShift(_)
\* the sum of the size changes of the records 1..i when each carries the
\* bytes built for its line
BuiltShift(i) ==
    IF i = 0 THEN 0 ELSE BuiltShift(i - 1) + Len(Built(i)) - Len(Original(i))

\* the output carries, at the place of every record, the bytes built for its
\* line
EveryRecordReplaced ==
    \A i \in 1..Len(blocks) :
        LET p == blocks[i].position + BuiltShift(i - 1)
        IN  /\ p + Len(Built(i)) <= Len(outFile.data)
            /\ Sub(outFile.data, p, p + Len(Built(i))) = Built(i)

\* C13: a result returned by injectFile has exactly one of success,
\* halfSuccess and fail set: a count mismatch gives fail; otherwise success
\* exactly when every record was replaced with its translation and no failure
\* occurred, halfSuccess exactly when some record was skipped and no failure
\* occurred; so injectDirectory never takes its "unknown result" branch
\* (stated for the inputs whose records all lie in the body).
C13_TriState ==
    (pc = "done" /\ cmd = "inject" /\ RecordsInBody) =>
        /\ Cardinality({f \in {"success", "halfSuccess", "fail"} : result[f]}) = 1
        /\ Mismatch => result.fail
        /\ ~Mismatch =>
              /\ result.success <=> (EveryRecordReplaced /\ ~result.fail)
              /\ result.halfSuccess <=> (Skipped /\ ~result.fail)
        /\ Classify(result) # "unknown"

\* the original bytes of the record the rewrite pass is at do not occur at
\* or after the search cursor
AnchorLost ==
    /\ pc = "rewrite"
    /\ idx <= Len(blocks)
    /\ ~\E q \in basePos..(Len(newBuffer) - Len(Original(idx))) :
            Sub(newBuffer, q, q + Len(Original(idx))) = Original(idx)

\* a step of the rewrite pass, and the step that returns, keep a failure
C14_Step ==
    /\ AnchorLost => result'.fail
    /\ (pc = "rewrite" /\ result.fail) =>
          /\ result'.fail
          /\ pc' = "done" => (~result'.success /\ ~result'.halfSuccess)

\* C14: when the original bytes of a record are not found at or after the
\* search cursor during the rewrite pass, the result of injectFile is fail,
\* never success or partial, whatever skips occurred before.
C14_LostAnchorFails == [][C14_Step]_vars

C14_Witness ==
    /\ pc = "done"
    /\ cmd = "inject"
    /\ ~Mismatch
    /\ Skipped
    /\ result.fail
    /\ ~result.halfSuccess
    /\ outFile.exists /\ outFile.data = newBuffer

\* the places at or after the search cursor where the original bytes of the
\* record the rewrite pass is at occur
Anchors ==
    {q \in basePos..(Len(newBuffer) - Len(Original(idx))) :
        Sub(newBuffer, q, q + Len(Original(idx))) = Original(idx)}

\* a rewrite step that writes a replacement leaves the cursor at or beyond
\* the end of the bytes it wrote
C15_Step ==
    (pc = "rewrite" /\ idx <= Len(blocks) /\ Anchors # {}) =>
        \E q \in Anchors :
            /\ \A r \in Anchors : q <= r
            /\ Sub(newBuffer', q, q + Len(blocks[idx].enBuffer)) = blocks[idx].enBuffer
            /\ basePos' >= q + Len(blocks[idx].enBuffer)

\* C15: in the rewrite pass, after the replacement for record i is written,
\* the search cursor used for record i+1 is at or beyond the end of the bytes
\* just written, so that search cannot match inside them.
C15_CursorPastReplacement == [][C15_Step]_vars

\* the budget pass of injectFile is over
BudgetDone ==
    /\ cmd = "inject"
    /\ \/ pc = "budget" /\ idx > Len(blocks)
       \/ pc \in {"rewrite", "thrown"}
       \/ Written

\* the size change D of record i as it enters the budget pass: an oversize
\* line left the record with its original bytes
Change(i) == IF TooLong(i) THEN 0 ELSE Len(Built(i)) - Len(Original(i))

RECURSIVE RunningLen(_)
\* the running length L after the records 1..i
RunningLen(i) ==
    IF i = 0 THEN Field(buffer)
    ELSE LET L == RunningLen(i - 1)
         IN  IF L + Change(i) <= 65535 THEN L + Change(i) ELSE L

\* record i is rejected by the budget
Rejected(i) == RunningLen(i - 1) + Change(i) > 65535

RECURSIVE OverflowSum(_)
\* the sum of L + D - 0xFFFF over the rejected records among 1..i
OverflowSum(i) ==
    IF i = 0 THEN 0
    ELSE OverflowSum(i - 1)
           + (IF Rejected(i) THEN RunningLen(i - 1) + Change(i) - 65535 ELSE 0)

\* C24: the overflow total reported for a file is the sum over the
\* budget-rejected records of L + D - 0xFFFF, L being the running length at
\* the rejection; the reported count of lines not injected is the number of
\* oversize-skipped plus budget-rejected records; a starting length of 0xFFFE
\* and a single record growing by 3 bytes report an overflow of 2.
C24_OverflowTotal ==
    BudgetDone =>
        LET n == Len(blocks) IN
        /\ lens.totalOverLen = OverflowSum(n)
        /\ lens.lostLines =
               Cardinality({i \in 1..n : TooLong(i)})
                 + Cardinality({i \in 1..n : Rejected(i)})
        /\ (n = 1 /\ Field(buffer) = 65534 /\ Change(1) = 3) =>
               lens.totalOverLen = 2

\* the file of one record, field 0xFFFE, whose line grows the record by 3
C24_Witness ==
    /\ Written
    /\ Len(blocks) = 1
    /\ Field(buffer) = 65534
    /\ Change(1) = 3
    /\ lens.totalOverLen = 2
    /\ lens.lostLines = 1
    /\ result.halfSuccess

\* no record has a replacement of another size than its original
NoSizeChange ==
    \A i \in 1..Len(blocks) : Len(blocks[i].enBuffer) = Len(blocks[i].jpBuffer)

\* C25: injectFile changes the 0x18-byte header only at bytes 0x14 and 0x15:
\* bytes [0x00, 0x14) and [0x16, 0x18) of the output equal those of the input
\* for every input and replacement list, and when no record changes size the
\* two bytes at 0x14 are unchanged too.
C25_HeaderFrame ==
    Written =>
        /\ Len(outFile.data) >= 24
        /\ Sub(outFile.data, 0, 20) = Sub(buffer, 0, 20)
        /\ Sub(outFile.data, 22, 24) = Sub(buffer, 22, 24)
        /\ NoSizeChange => Sub(outFile.data, 20, 22) = Sub(buffer, 20, 22)

\* a file written with a field that changed, under a header whose bytes at
\* 0x16 and 0x17 are not zero
C25_Witness ==
    /\ Written
    /\ Sub(buffer, 22, 24) = <<253, 1>>
    /\ Field(outFile.data) # Field(buffer)
    /\ ~NoSizeChange

\* the bytes record i is to carry in the output: its original bytes when it
\* was skipped as oversize or rejected by the budget, else the bytes built
\* for line i
Expected(i) == IF TooLong(i) \/ Rejected(i) THEN Original(i) ELSE Built(i)

\* C26: scanning the output of a successful or partial injection (no GOTO
\* lines) yields exactly as many records as scanning the input, and the i-th
\* record of the output carries the encoded bytes of the i-th replacement
\* when it was accepted and the original text bytes when it was skipped.
C26_RescanOutput ==
    (/\ Written
     /\ result.success \/ result.halfSuccess
     /\ \A i \in 1..Len(enLines) : ~IsGoto(enLines[i]))
        => LET out == extractTextBlocks(outFile.data)
           IN  /\ Len(out) = Len(blocks)
               /\ \A i \in 1..Len(blocks) : out[i].jpBuffer = Expected(i)

\* C27: when the replacement count matches the record count the search of
\* replaceBuffer never fails during the rewrite pass of injectFile: the
\* original bytes of each record are found at or after the cursor, and the
\* result of a run that passed the pre-check is never fail.
C27_AnchorAlwaysFound ==
    /\ (pc = "rewrite" /\ idx <= Len(blocks)) =>
           IndexOf(newBuffer, blocks[idx].jpBuffer, basePos) # -1
    /\ (cmd = "inject" /\ pc \in {"rewrite", "done"}
          /\ Len(enLines) = Len(blocks)) => ~result.fail

\* the budget pass is under way or over
InBudget == cmd = "inject" /\ (pc = "budget" \/ BudgetDone)

\* a budget step on a record whose replacement is no longer than its
\* original accepts it
C29_Step ==
    (pc = "budget" /\ idx <= Len(blocks)
       /\ Len(blocks[idx].enBuffer) <= Len(blocks[idx].jpBuffer)) =>
        /\ blocks' = blocks
        /\ lens'.lostLines = lens.lostLines
        /\ lens'.totalOverLen = lens.totalOverLen
        /\ lens'.newLen
             = lens.newLen + Len(blocks[idx].enBuffer) - Len(blocks[idx].jpBuffer)

\* the running length is in range, and the write at 0x14 does not throw
C29_Range ==
    /\ InBudget => lens.newLen <= 65535
    /\ (InBudget /\ Field(buffer) = Len(Body(buffer))) =>
           /\ lens.newLen >= 0
           /\ pc # "thrown"

\* C29: for every input whose field at 0x14 equals its body length the
\* running length L of the budget pass stays within 0..0xFFFF after every
\* record, so a record whose replacement is no longer than its original is
\* never budget-rejected and the 16-bit write of L at 0x14 never receives an
\* out-of-range value.
C29_RunningLenInRange == [][C29_Step]_vars /\ []C29_Range

\* a file written from an input whose field is its body length, with a
\* record that shrank and a field that went down
C29_Witness ==
    /\ Written
    /\ Field(buffer) = Len(Body(buffer))
    /\ \E i \in 1..Len(blocks) :
          Len(blocks[i].enBuffer) < Len(blocks[i].jpBuffer)
    /\ lens.newLen < lens.oldLen
    /\ Field(outFile.data) = lens.newLen

----------------------------------------------------------------------------
(* The wrapper's claims, checked under SpecWrap *)

\* the lines of the wrapper's output
OutLines == Split(wrapOut.text)

\* C11: in the output of the line wrapper no line (the characters between two
\* 0x0A) is longer than 53 characters unless that line contains no space.
C11_WrapInvariant ==
    wrapOut.done =>
        \A k \in 1..Len(OutLines) :
            Len(OutLines[k]) > 53 =>
                \A j \in 1..Len(OutLines[k]) : OutLines[k][j] # 32

\* the greatest element of a non-empty set of integers
Max(S) == CHOOSE x \in S : \A y \in S : y <= x

\* the positions (1-based) where the wrapper put a 0x0A in place of a space
InsertedBreaks ==
    {p \in 1..Len(wrapIn) : wrapIn[p] = SPACE /\ wrapOut.text[p] = LF}

\* the position of the 0x0A that precedes position p in text, 0 if none
LineStart(text, p) == Max({0} \cup {j \in 1..(p - 1) : text[j] = LF})

\* the length of the first line of the input
FirstLineLen ==
    Max({0} \cup {n \in 1..Len(wrapIn) : \A j \in 1..n : wrapIn[j] # LF})

\* the spaces among the first 52 characters of the first line of the input
EarlySpaces == {p \in 1..52 : p <= FirstLineLen /\ wrapIn[p] = SPACE}

\* C22: when a line of replacement text exceeds 52 characters the wrapper
\* breaks it at the last space within its first 52 characters, and every line
\* that ends at a break inserted by the wrapper has at most 52 characters.
C22_BreakWithin52 ==
    wrapOut.done =>
        /\ (FirstLineLen > 52 /\ EarlySpaces # {}) =>
               Max(EarlySpaces) \in InsertedBreaks
        /\ \A p \in InsertedBreaks :
               p - 1 - LineStart(wrapOut.text, p) <= 52

\* the counting rule of the wrapper as specified, at index i (0-based): width
\* is reset by a 0x0A (to 0) and by an inserted break (to i - last_space);
\* at 53 or more without a space nothing is reset
RuleStep(st, i) ==
    LET char == st.chars[i + 1]
        sp   == IF char = SPACE THEN i ELSE st.lastSpacePos
        w    == IF char = LF THEN 0 ELSE st.width + 1
        lsp  == IF char = LF THEN -1 ELSE sp
    IN  IF w >= maxWidth /\ lsp # -1
        THEN [chars |-> [st.chars EXCEPT ![lsp + 1] = LF],
              width |-> i - lsp, lastSpacePos |-> -1]
        ELSE [chars |-> st.chars, width |-> w, lastSpacePos |-> lsp]

RECURSIVE RuleRun(_, _, _)
\* the specified rule over the indexes lo..hi, by halves
RuleRun(st, lo, hi) ==
    IF lo > hi THEN st
    ELSE IF lo = hi THEN RuleStep(st, lo)
    ELSE LET mid  == (lo + hi) \div 2
             left == RuleRun(st, lo, mid)
         IN  IF left.width < 0 THEN left
             ELSE RuleRun(left, mid + 1, hi)

\* the state in which the loop of processEnText starts
WrapStart == [chars |-> wrapIn, width |-> 0, lastSpacePos |-> -1]

\* C23: the wrapper follows the specified counting rule on every input: width
\* is reset only by a 0x0A and by a break it inserts, and when width reaches
\* 53 on a line without a space no break is inserted and width is not reset;
\* so the loop of processEnText ends in the state the rule ends in, with the
\* same text and the same width.
C23_CountingRule ==
    wrapOut.done =>
        /\ wrapOut.text = RuleRun(WrapStart, 0, Len(wrapIn) - 1).chars
        /\ WrapRun(WrapStart, 0, Len(wrapIn) - 1)
             = RuleRun(WrapStart, 0, Len(wrapIn) - 1)

\* C30: the line wrapper only turns spaces into line breaks: its output has
\* as many characters as its input and differs from it only at positions
\* where the input has a space and the output a 0x0A; nothing is inserted,
\* deleted or reordered, and the 0x0A of the input are kept.
C30_OnlySpacesBecomeBreaks ==
    wrapOut.done =>
        /\ Len(wrapOut.text) = Len(wrapIn)
        /\ \A p \in 1..Len(wrapIn) :
              wrapOut.text[p] # wrapIn[p] =>
                  wrapIn[p] = SPACE /\ wrapOut.text[p] = LF

\* a call that turned a space into a break in a text that had a 0x0A already
C30_Witness ==
    /\ wrapOut.done
    /\ InsertedBreaks # {}
    /\ \E q \in 1..Len(wrapIn) : wrapIn[q] = LF /\ wrapOut.text[q] = LF
    /\ Len(wrapOut.text) = Len(wrapIn)

----------------------------------------------------------------------------
(* The claims on compressCC, decompressCC and the codec, checked under *)
(* SpecCodec *)

\* the plain file has a header and its field at 0x14 holds its body length
Framed == Len(plain) >= 24 /\ Field(plain) = Len(Body(plain))

\* C16: for a file in decompressed form whose field at 0x14 holds the body
\* length, decompressCC of the output of compressCC is the file again; the
\* first 0x18 bytes pass through both operations unchanged; compressCC
\* compresses the bytes from 0x18 and decompressCC feeds the codec the bytes
\* from 0x14, length prefix included.
C16_FramingRoundTrip ==
    /\ (packed.done /\ Len(plain) >= 24) =>
          /\ packed.ok
          /\ Sub(packed.data, 0, 24) = Sub(plain, 0, 24)
          /\ LzssDecompress(Sub(packed.data, 24, Len(packed.data)), FALSE)
               = [ok |-> TRUE, data |-> Body(plain)]
    /\ (unpacked.done /\ unpacked.ok) =>
          /\ Sub(unpacked.data, 0, 24) = Sub(packed.data, 0, 24)
          /\ Body(unpacked.data)
               = LzssDecompress(Sub(packed.data, 20, Len(packed.data)), TRUE).data
    /\ (unpacked.done /\ Framed) => (unpacked.ok /\ unpacked.data = plain)

C16_Witness ==
    /\ unpacked.done
    /\ unpacked.ok
    /\ Framed
    /\ unpacked.data = plain
    /\ Len(Body(plain)) >= 10
    /\ Len(packed.data) < Len(plain)

\* C17: decompress(compress(X)) = X for the codec with a 4096-byte ring
\* filled with 0x00, flag bit 1 = literal, and back-references of 3..18 bytes.
C17_LzssRoundTrip ==
    lzBack.done => (lzBack.ok /\ lzBack.data = LzInput)

C17_Witness ==
    /\ lzBack.done
    /\ lzBack.data = LzInput
    /\ Len(LzInput) = 40
    /\ Len(lzStream.data) < 14

----------------------------------------------------------------------------
(* The driver's claims, checked under SpecBatch *)

\* the directory function of the batch has returned or thrown
BatchOver == mainPc \in {"returned", "threw", "exited"}

\* processing file i failed: it threw, or injectFile returned a fail Result
Failed(i) ==
    files[i] \in {"throw", "fail", "readThrow", "openThrow", "replaceThrow"}

\* processing file i succeeded
Succeeded(i) == files[i] \in {"ok", "success"}

\* C18: in each batch operation a failure on one file never stops the batch:
\* when the batch is over, every .CC file of the listing has had its pass of
\* the loop, whatever the files before it did.
C18_BatchContinues == BatchOver => attempted = 1..Len(files)

\* C19: for each command of the driver the exit status is 0 when every file
\* succeeded and nonzero when at least one file failed.
C19_ExitStatus ==
    exitStatus # -1 =>
        /\ (\A i \in 1..Len(files) : Succeeded(i)) => exitStatus = 0
        /\ (\E i \in 1..Len(files) : Failed(i)) => exitStatus # 0

\* C20: every image handle opened by importFileToHdi is closed before it
\* returns or throws, on every path, replaceFile throwing included: a handle
\* is open only between the constructor and the end of the finally block.
C20_HandleClosed ==
    /\ openHandles \in {0, 1}
    /\ importPc \notin {"try", "finally"} => openHandles = 0

\* importFileToHdi has thrown what replaceFile threw, after the handle was
\* opened
C20_Witness ==
    /\ importPc = "threw"
    /\ pending
    /\ files[fileIdx] = "replaceThrow"
    /\ openHandles = 0

\* a handle is opened only when none is open
OpensWhenNoneOpen == openHandles' > openHandles => openHandles = 0

\* C21: during a run of importDirectoryToHdi at most one image handle is open
\* at any time, the handle of one file is closed before the handle of the
\* next is opened, and importFileToHdi is called exactly once for each .CC
\* file of the listing.
C21_OneWriter ==
    /\ [][OpensWhenNoneOpen]_vars
    /\ [](openHandles <= 1)
    /\ [](\A i \in 1..Len(writerCalls) : writerCalls[i] <= 1)
    /\ [](command = "hdi" /\ BatchOver =>
             \A i \in 1..Len(files) : writerCalls[i] = 1)

\* the batch is over after two files that each had a handle opened, the first
\* of them with replaceFile throwing
C21_Witness ==
    /\ command = "hdi"
    /\ BatchOver
    /\ Len(files) >= 2
    /\ files[1] = "replaceThrow"
    /\ files[2] \in {"ok", "replaceThrow"}
    /\ openHandles = 0
    /\ \A i \in 1..Len(files) : writerCalls[i] = 1

====
